---- MODULE Spec2Model ----
(***************************************************************************)
(* A model of sjson (src/src/sjson.hpp): the tokenizer JSONScanner, the    *)
(* recursive-descent JSONParser, the value node JSONObject with its        *)
(* serializer to_string, and the document handle JSON.                     *)
(*                                                                         *)
(* Text is a sequence of one-character strings.  Positions are 1-based     *)
(* here and 0-based in the source: the model's i is the source's i + 1.    *)
(***************************************************************************)
EXTENDS Integers, Sequences, FiniteSets, TLC

VARIABLES
  input,    \* what the run was started on (history: never read by the program)
  sc,       \* JSONScanner: the file's unread text, the current line, i, tokens
  ps,       \* JSONParser: tokens, index, the call stack, the returned value
  heap,     \* the JSONObject nodes alive, by address
  handles,  \* the JSON handles of the caller: handle -> address of its root
  last,     \* the last JSON operation and what it returned (history)
  detached  \* the roots a failed operator[] made with JSON() (history)

vars == <<input, sc, ps, heap, handles, last, detached>>

(***************************************************************************)
(* Characters                                                              *)
(***************************************************************************)

\* <cctype> isdigit
IsDigit(c) == c \in {"0", "1", "2", "3", "4", "5", "6", "7", "8", "9"}

\* <cctype> isspace in the "C" locale (the vertical tab has no TLA+ literal)
IsSpace(c) == c \in {" ", "\t", "\n", "\r", "\f"}

DigitVal(c) ==
  CASE c = "0" -> 0 [] c = "1" -> 1 [] c = "2" -> 2 [] c = "3" -> 3
    [] c = "4" -> 4 [] c = "5" -> 5 [] c = "6" -> 6 [] c = "7" -> 7
    [] c = "8" -> 8 [] c = "9" -> 9

DigitChar(d) ==
  CASE d = 0 -> "0" [] d = 1 -> "1" [] d = 2 -> "2" [] d = 3 -> "3"
    [] d = 4 -> "4" [] d = 5 -> "5" [] d = 6 -> "6" [] d = 7 -> "7"
    [] d = 8 -> "8" [] d = 9 -> "9"

\* The character codes std::string's operator< compares (the order of the
\* keys of std::map<std::string, ...>), for the characters the model uses.
Ascii(c) ==
  CASE c = "\t" -> 9 [] c = "\n" -> 10 [] c = " " -> 32 [] c = "\"" -> 34
    [] c = "+" -> 43 [] c = "," -> 44 [] c = "-" -> 45 [] c = "." -> 46
    [] c = "/" -> 47 [] IsDigit(c) -> 48 + DigitVal(c) [] c = ":" -> 58
    [] c = "E" -> 69 [] c = "[" -> 91 [] c = "]" -> 93
    [] c = "a" -> 97 [] c = "b" -> 98 [] c = "c" -> 99 [] c = "e" -> 101
    [] c = "f" -> 102 [] c = "l" -> 108 [] c = "n" -> 110 [] c = "r" -> 114
    [] c = "s" -> 115 [] c = "t" -> 116 [] c = "u" -> 117 [] c = "x" -> 120
    [] c = "{" -> 123 [] c = "}" -> 125

\* std::string::substr(pos, n) for pos <= size: at most n characters from pos
Substr(s, pos, n) ==
  SubSeq(s, pos, IF pos + n - 1 > Len(s) THEN Len(s) ELSE pos + n - 1)

\* std::string::find("//"): the first position of "//", 0 for npos
RECURSIVE FindFrom(_, _)
FindFrom(s, p) ==
  IF p + 1 > Len(s) THEN 0
  ELSE IF s[p] = "/" /\ s[p + 1] = "/" THEN p
  ELSE FindFrom(s, p + 1)

FindComment(s) == FindFrom(s, 1)

(***************************************************************************)
(* Tokens: <<kind, literal text>>                                          *)
(***************************************************************************)

Tok(kind, text) == [kind |-> kind, text |-> text]

\* the placeholder every failed scan returns, and get_next_token at the end
NullPlaceholder == Tok("NULL_", <<>>)

NoTok == <<>>

(***************************************************************************)
(* JSONScanner                                                             *)
(***************************************************************************)

\* What one scan_* call hands back: the token, where it left i, and the
\* diagnostic it printed ("" for none).
Scanned(tok, i, err) == [tok |-> tok, i |-> i, err |-> err]

scan_null(s, i) ==
  IF Substr(s, i, 4) = <<"n", "u", "l", "l">>
  THEN Scanned(Tok("NULL_", <<"n", "u", "l", "l">>), i + 3, "")
  ELSE Scanned(NullPlaceholder, i, "JSON Scan Error: unexpected null format")

scan_bool(s, i) ==
  IF Substr(s, i, 4) = <<"t", "r", "u", "e">>
  THEN Scanned(Tok("BOOL", <<"t", "r", "u", "e">>), i + 3, "")
  ELSE IF Substr(s, i, 5) = <<"f", "a", "l", "s", "e">>
  THEN Scanned(Tok("BOOL", <<"f", "a", "l", "s", "e">>), i + 4, "")
  ELSE Scanned(NullPlaceholder, i, "JSON Scan Error: unexpected bool format")

\* the for loop of scan_string, entered at i = start + 1
RECURSIVE scan_string_loop(_, _, _)
scan_string_loop(s, start, i) ==
  IF i > Len(s)
  THEN Scanned(NullPlaceholder, i, "JSON Scan Error: unexpected string format")
  ELSE IF s[i] = "\""
  THEN Scanned(Tok("STRING", Substr(s, start, i - start + 1)), i, "")
  ELSE scan_string_loop(s, start, i + 1)

scan_string(s, i) == scan_string_loop(s, i, i + 1)

NumberError(i) ==
  Scanned(NullPlaceholder, i, "JSON Scan Error: unexpected number format")

\* the for loop of scan_number_integer; dot_pos and e_pos are 0 while unset
\* (-1 in the source)
RECURSIVE scan_number_loop(_, _, _, _, _)
scan_number_loop(s, start, i, dot_pos, e_pos) ==
  LET done == Scanned(Tok(IF dot_pos # 0 \/ e_pos # 0 THEN "NUMBER" ELSE "INTEGER",
                          Substr(s, start, i - start)), i, "")
  IN IF i > Len(s) THEN done
     ELSE IF IsDigit(s[i]) THEN scan_number_loop(s, start, i + 1, dot_pos, e_pos)
     ELSE IF s[i] = "."
     THEN IF dot_pos # 0 \/ e_pos # 0 THEN NumberError(i)
          ELSE scan_number_loop(s, start, i + 1, i, e_pos)
     ELSE IF s[i] \in {"e", "E"}
     THEN IF e_pos # 0 THEN NumberError(i)
          ELSE scan_number_loop(s, start, i + 1, dot_pos, i)
     ELSE IF s[i] \in {"+", "-"}
     THEN IF i > start /\ s[i - 1] \notin {"e", "E"} THEN NumberError(i)
          ELSE scan_number_loop(s, start, i + 1, dot_pos, e_pos)
     ELSE done

scan_number_integer(s, i) == scan_number_loop(s, i, i, 0, 0)

\* The body of scan's inner for loop at a non-space character: the token
\* pushed, where the callee left i, and whether scan returned (the
\* unexpected-character branch).
ScanChar(line, i) ==
  LET c == line[i]
      one(kind) == [r |-> Scanned(Tok(kind, <<c>>), i, ""), fatal |-> FALSE]
      call(r) == [r |-> r, fatal |-> FALSE]
  IN CASE c = "{" -> one("LEFT_CURLY_BRACKET")
       [] c = "}" -> one("RIGHT_CURLY_BRACKET")
       [] c = "[" -> one("LEFT_SQUARE_BRACKET")
       [] c = "]" -> one("RIGHT_SQUARE_BRACKET")
       [] c = "," -> one("COMMA")
       [] c = ":" -> one("COLON")
       [] c = "\"" -> call(scan_string(line, i))
       [] c \in {"t", "f"} -> call(scan_bool(line, i))
       [] c = "n" -> call(scan_null(line, i))
       [] IsDigit(c) \/ c \in {"+", "-"} -> call(scan_number_integer(line, i))
       [] OTHER -> [r |-> Scanned(NoTok, i, "JSON Scan Error: unexpected character"),
                    fatal |-> TRUE]

\* std::getline: the text up to the first newline, and what follows it
RECURSIVE LineEnd(_, _)
LineEnd(s, p) == IF p > Len(s) \/ s[p] = "\n" THEN p ELSE LineEnd(s, p + 1)

GetLine(rest) ==
  LET e == LineEnd(rest, 1)
  IN [line |-> SubSeq(rest, 1, e - 1), rest |-> SubSeq(rest, e + 1, Len(rest))]

\* scan's "find comments": cut the line at its first "//"
StripComment(line) ==
  LET comment == FindComment(line)
  IN IF comment # 0 THEN SubSeq(line, 1, comment - 1) ELSE line

AddLog(log, err) == IF err = "" THEN log ELSE Append(log, err)

\* A scanner about to read a file: `opened` is whether file.open succeeded.
ScannerInit(opened, text) ==
  [pc |-> "read", opened |-> opened, rest |-> text, line |-> <<>>, i |-> 1,
   tokens |-> <<>>, log |-> <<>>]

\* One step of JSONScanner::read / scan: the open check, one std::getline
\* with the comment cut, or one iteration of the loop over the line (the
\* loop's i++ included).
ScanStep(s) ==
  CASE s.pc = "read" ->
         IF s.opened THEN [s EXCEPT !.pc = "getline"]
         ELSE [s EXCEPT !.pc = "done",
                        !.log = Append(@, "JSON Scan Error: cannot open file")]
    [] s.pc = "getline" ->
         IF s.rest = <<>> THEN [s EXCEPT !.pc = "done"]
         ELSE LET g == GetLine(s.rest)
              IN [s EXCEPT !.pc = "loop", !.rest = g.rest,
                           !.line = StripComment(g.line), !.i = 1]
    [] s.pc = "loop" ->
         IF s.i > Len(s.line) THEN [s EXCEPT !.pc = "getline"]
         ELSE IF IsSpace(s.line[s.i]) THEN [s EXCEPT !.i = @ + 1]
         ELSE LET b == ScanChar(s.line, s.i)
              IN IF b.fatal
                 THEN [s EXCEPT !.pc = "done", !.log = AddLog(@, b.r.err)]
                 ELSE [s EXCEPT !.tokens = Append(@, b.r.tok),
                                !.i = b.r.i + 1,
                                !.log = AddLog(@, b.r.err)]
    [] OTHER -> s

\* read() run to its return
RECURSIVE RunScan(_)
RunScan(s) == IF s.pc = "done" THEN s ELSE RunScan(ScanStep(s))

\* JSONScanner::read followed by get_tokens
ScanText(text) == RunScan(ScannerInit(TRUE, text)).tokens

(***************************************************************************)
(* JSONObject: a node is [type, value].  A Dict is the in-order contents   *)
(* of the std::map: entries <<[key, val]>> sorted by key, keys unique.  A  *)
(* child is a JSONObject (a tree) in what the parser builds and what       *)
(* to_string prints, and an address in the heap the JSON handles share.    *)
(* A float is [neg, m, e]: the decimal m * 10^e the literal denotes, with  *)
(* its sign (there is a negative zero); rounding to binary32 is not        *)
(* modelled.                                                               *)
(***************************************************************************)

Node(type, value) == [type |-> type, value |-> value]

\* JSONObject(): type NULL_, value nullptr
NullObject == Node("NULL_", <<>>)

\* JSONObject(T v) -> set<T>(v), one per alternative of ValueType
BoolObject(b) == Node("BOOL", b)
IntObject(n) == Node("INTEGER", n)
FloatObject(f) == Node("NUMBER", f)
StringObject(str) == Node("STRING", str)
ArrayObject(v) == Node("ARRAY", v)
DictObject(m) == Node("DICT", m)

\* std::string operator<
RECURSIVE LexLess(_, _)
LexLess(a, b) ==
  IF b = <<>> THEN FALSE
  ELSE IF a = <<>> THEN TRUE
  ELSE IF Ascii(Head(a)) # Ascii(Head(b)) THEN Ascii(Head(a)) < Ascii(Head(b))
  ELSE LexLess(Tail(a), Tail(b))

\* Dict::find(key): the entry's position, 0 for end()
DictFind(m, key) ==
  IF \E k \in 1..Len(m) : m[k].key = key
  THEN CHOOSE k \in 1..Len(m) : m[k].key = key
  ELSE 0

\* m[key] = val: overwrite the entry, or insert it in key order
DictPut(m, key, val) ==
  LET at == DictFind(m, key)
      before == Cardinality({k \in 1..Len(m) : LexLess(m[k].key, key)})
  IN IF at # 0 THEN [m EXCEPT ![at].val = val]
     ELSE SubSeq(m, 1, before) \o <<[key |-> key, val |-> val]>>
          \o SubSeq(m, before + 1, Len(m))

Spaces(n) == [k \in 1..n |-> " "]
Zeros(n) == [k \in 1..n |-> "0"]

(***************************************************************************)
(* Numeric conversions                                                     *)
(***************************************************************************)

INT_MAX == 2147483647

Thrown(what) == [thrown |-> TRUE, what |-> what, value |-> 0]
Converted(v) == [thrown |-> FALSE, what |-> "", value |-> v]

\* strtol's digit loop, accumulating the negated magnitude so that INT_MIN
\* fits; "range" once the magnitude passes 2^31
RECURSIVE StoiDigits(_, _, _, _)
StoiDigits(s, p, neg, any) ==
  IF p > Len(s) \/ ~IsDigit(s[p]) THEN [neg |-> neg, any |-> any, range |-> FALSE]
  ELSE LET d == DigitVal(s[p])
       IN IF neg < -214748364 \/ (neg = -214748364 /\ d > 8)
          THEN [neg |-> neg, any |-> TRUE, range |-> TRUE]
          ELSE StoiDigits(s, p + 1, neg * 10 - d, TRUE)

\* std::stoi: optional sign, then the longest run of digits; throws
\* std::invalid_argument without a digit and std::out_of_range outside int
stoi(s) ==
  LET signed == s # <<>> /\ s[1] \in {"+", "-"}
      minus == signed /\ s[1] = "-"
      r == StoiDigits(s, IF signed THEN 2 ELSE 1, 0, FALSE)
  IN IF ~r.any THEN Thrown("invalid_argument")
     ELSE IF r.range \/ (~minus /\ r.neg = -INT_MAX - 1) THEN Thrown("out_of_range")
     ELSE Converted(IF minus THEN r.neg ELSE -r.neg)

\* the end of the run of digits that starts at p
RECURSIVE DigitsEnd(_, _)
DigitsEnd(s, p) == IF p > Len(s) \/ ~IsDigit(s[p]) THEN p ELSE DigitsEnd(s, p + 1)

\* a run of at most nine digits as a number
RECURSIVE DigitsVal(_)
DigitsVal(ds) ==
  IF ds = <<>> THEN 0 ELSE DigitsVal(SubSeq(ds, 1, Len(ds) - 1)) * 10 + DigitVal(ds[Len(ds)])

\* m * 10^e with m free of trailing zeros
RECURSIVE Normal(_, _)
Normal(m, e) ==
  IF m = 0 THEN [m |-> 0, e |-> 0]
  ELSE IF m % 10 = 0 THEN Normal(m \div 10, e + 1)
  ELSE [m |-> m, e |-> e]

RECURSIVE NumDigits(_)
NumDigits(n) == IF n < 10 THEN 1 ELSE 1 + NumDigits(n \div 10)

\* std::stof (strtof): optional sign, digits with at most one '.', and an
\* exponent only when a digit follows its e; the longest such prefix is
\* converted and the rest ignored.  Throws std::invalid_argument when the
\* mantissa has no digit and std::out_of_range when strtof reports ERANGE
\* (here: a decimal exponent beyond binary32's 1e-38 .. 1e38).
stof(s) ==
  LET signed == s # <<>> /\ s[1] \in {"+", "-"}
      minus == signed /\ s[1] = "-"
      p0 == IF signed THEN 2 ELSE 1
      p1 == DigitsEnd(s, p0)
      dot == p1 <= Len(s) /\ s[p1] = "."
      p2 == IF dot THEN DigitsEnd(s, p1 + 1) ELSE p1
      intd == SubSeq(s, p0, p1 - 1)
      frac == IF dot THEN SubSeq(s, p1 + 1, p2 - 1) ELSE <<>>
      hasE == p2 <= Len(s) /\ s[p2] \in {"e", "E"}
      esigned == hasE /\ p2 + 1 <= Len(s) /\ s[p2 + 1] \in {"+", "-"}
      p3 == IF esigned THEN p2 + 2 ELSE p2 + 1
      p4 == IF hasE THEN DigitsEnd(s, p3) ELSE p3
      expd == IF hasE THEN SubSeq(s, p3, p4 - 1) ELSE <<>>
      x == IF esigned /\ s[p2 + 1] = "-" THEN -DigitsVal(expd) ELSE DigitsVal(expd)
      n == Normal(DigitsVal(intd \o frac), x - Len(frac))
      mag == n.e + NumDigits(n.m) - 1
  IN IF intd \o frac = <<>> THEN Thrown("invalid_argument")
     ELSE IF n.m # 0 /\ (mag > 38 \/ mag < -38) THEN Thrown("out_of_range")
     ELSE Converted([neg |-> minus, m |-> n.m, e |-> n.e])

\* the decimal digits of n >= 0
RECURSIVE NatToStr(_)
NatToStr(n) ==
  IF n < 10 THEN <<DigitChar(n)>> ELSE Append(NatToStr(n \div 10), DigitChar(n % 10))

\* std::to_string(int)
IntToStr(n) ==
  IF n = -INT_MAX - 1 THEN <<"-", "2", "1", "4", "7", "4", "8", "3", "6", "4", "8">>
  ELSE IF n < 0 THEN <<"-">> \o NatToStr(-n)
  ELSE NatToStr(n)

\* a run of digits plus one
RECURSIVE DigitsSucc(_)
DigitsSucc(ds) ==
  IF ds = <<>> THEN <<"1">>
  ELSE IF ds[Len(ds)] = "9" THEN Append(DigitsSucc(SubSeq(ds, 1, Len(ds) - 1)), "0")
  ELSE Append(SubSeq(ds, 1, Len(ds) - 1), DigitChar(DigitVal(ds[Len(ds)]) + 1))

\* std::to_string(float), printf's "%f": six decimals, the seventh rounded
FloatToStr(f) ==
  LET ds == NatToStr(f.m)
      k == -f.e
      padded == Zeros(IF k + 7 > Len(ds) THEN k + 7 - Len(ds) ELSE 0) \o ds
      all == IF f.e >= 0 THEN ds \o Zeros(f.e + 6)
             ELSE IF k <= 6 THEN padded \o Zeros(6 - k)
             ELSE LET cut == SubSeq(padded, 1, Len(padded) - (k - 6))
                      next == padded[Len(padded) - (k - 6) + 1]
                  IN IF DigitVal(next) >= 5 THEN DigitsSucc(cut) ELSE cut
      lead == DigitsEnd([j \in 1..Len(all) |-> IF all[j] = "0" THEN "0" ELSE "x"], 1) - 1
      skip == IF lead > Len(all) - 7 THEN Len(all) - 7 ELSE lead
      shown == SubSeq(all, skip + 1, Len(all))
  IN (IF f.neg THEN <<"-">> ELSE <<>>)
     \o SubSeq(shown, 1, Len(shown) - 6) \o <<".">>
     \o SubSeq(shown, Len(shown) - 5, Len(shown))

(***************************************************************************)
(* JSONObject::to_string                                                   *)
(***************************************************************************)

Quoted(str) == <<"\"">> \o str \o <<"\"">>

\* the closing bracket of a container printed at `depth`
Closing(depth, bracket) ==
  (IF depth > 2 THEN Spaces(depth - 2) ELSE <<>>) \o <<bracket>>

\* to_string(depth) of a tree: `add` puts `depth` spaces before each child,
\* which is itself printed at depth + 2
RECURSIVE to_string(_, _)
to_string(o, depth) ==
  LET RECURSIVE items(_)
      items(k) ==
        IF k > Len(o.value) THEN <<>>
        ELSE Spaces(depth)
             \o (IF o.type = "DICT"
                 THEN Quoted(o.value[k].key) \o <<":", " ">>
                      \o to_string(o.value[k].val, depth + 2)
                 ELSE to_string(o.value[k], depth + 2))
             \o (IF k < Len(o.value) THEN <<",">> ELSE <<>>)
             \o <<"\n">> \o items(k + 1)
  IN CASE o.type = "NULL_" -> <<"n", "u", "l", "l">>
       [] o.type = "BOOL" ->
            IF o.value THEN <<"t", "r", "u", "e">> ELSE <<"f", "a", "l", "s", "e">>
       [] o.type = "INTEGER" -> IntToStr(o.value)
       [] o.type = "NUMBER" -> FloatToStr(o.value)
       [] o.type = "STRING" -> Quoted(o.value)
       [] o.type = "ARRAY" -> <<"[", "\n">> \o items(1) \o Closing(depth, "]")
       [] o.type = "DICT" -> <<"{", "\n">> \o items(1) \o Closing(depth, "}")

(***************************************************************************)
(* JSONParser.  index is the source's: the number of tokens consumed.      *)
(* The call stack holds one frame per active parse / parse_array /         *)
(* parse_dict call; ret is the value the last call returned.               *)
(***************************************************************************)

EndOfTokens == "JSON Parser Error: unexpected end of tokens"

\* get_next_token with the index++ ahead of the bounds check
get_next_token_past_end(p) ==
  IF p.index >= Len(p.tokens)
  THEN [tok |-> NullPlaceholder,
        p |-> [p EXCEPT !.index = @ + 1, !.log = Append(@, EndOfTokens)]]
  ELSE [tok |-> p.tokens[p.index + 1], p |-> [p EXCEPT !.index = @ + 1]]

\* get_next_token: the token and the parser after the call
get_next_token(p) ==
  IF p.index >= Len(p.tokens)
  THEN [tok |-> NullPlaceholder, p |-> [p EXCEPT !.log = Append(@, EndOfTokens)]]
  ELSE [tok |-> p.tokens[p.index + 1], p |-> [p EXCEPT !.index = @ + 1]]

peek_next_token(p) ==
  IF p.index >= Len(p.tokens)
  THEN [tok |-> NullPlaceholder, p |-> [p EXCEPT !.log = Append(@, EndOfTokens)]]
  ELSE [tok |-> p.tokens[p.index + 1], p |-> p]

Frame(fn, pc) == [fn |-> fn, pc |-> pc, i |-> 0, v |-> <<>>, key |-> <<>>]

ParserInit(tokens) ==
  [tokens |-> tokens, index |-> 0, stack |-> <<Frame("parse", "entry")>>,
   ret |-> NullObject, status |-> "running", what |-> "", log |-> <<>>]

\* the parser before JSONParser is constructed
ParserIdle ==
  [tokens |-> <<>>, index |-> 0, stack |-> <<>>, ret |-> NullObject,
   status |-> "idle", what |-> "", log |-> <<>>]

Top(p) == p.stack[Len(p.stack)]

\* `return value`: pop the frame; the outermost return ends the parse
Return(p, value) ==
  [p EXCEPT !.stack = SubSeq(@, 1, Len(@) - 1), !.ret = value,
            !.status = IF Len(p.stack) = 1 THEN "returned" ELSE @]

\* `return value` after printing a diagnostic
Fail(p, err) == Return([p EXCEPT !.log = Append(@, err)], NullObject)

\* an exception leaves every frame: nothing in the library catches it
Throw(p, what) == [p EXCEPT !.stack = <<>>, !.status = "thrown", !.what = what]

\* the running call moves to pc and calls parse()
Call(p, pc) ==
  [p EXCEPT !.stack = Append([@ EXCEPT ![Len(@)].pc = pc], Frame("parse", "entry"))]

\* `return parse_array()` / `return parse_dict()`: the callee takes the frame
TailCall(p, fn) == [p EXCEPT !.stack[Len(p.stack)] = Frame(fn, "peek")]

\* std::string::substr(1, len - 2) of a STRING token: len - 2 is unsigned,
\* and pos > size throws std::out_of_range
Unquote(token) ==
  IF Len(token) < 1 THEN Thrown("out_of_range")
  ELSE Converted(IF Len(token) = 1 THEN <<>> ELSE SubSeq(token, 2, Len(token) - 1))

\* parse(), up to its return or to the call it makes
parse(p0) ==
  LET g == get_next_token(p0)
      p == g.p
      kind == g.tok.kind
      token == g.tok.text
  IN CASE kind = "NULL_" -> Return(p, NullObject)
       [] kind = "BOOL" -> Return(p, BoolObject(token = <<"t", "r", "u", "e">>))
       [] kind = "STRING" ->
            LET u == Unquote(token)
            IN IF u.thrown THEN Throw(p, u.what) ELSE Return(p, StringObject(u.value))
       [] kind = "LEFT_SQUARE_BRACKET" -> TailCall(p, "parse_array")
       [] kind = "LEFT_CURLY_BRACKET" -> TailCall(p, "parse_dict")
       [] kind = "INTEGER" ->
            LET c == stoi(token)
            IN IF c.thrown THEN Throw(p, c.what) ELSE Return(p, IntObject(c.value))
       [] kind = "NUMBER" ->
            LET c == stof(token)
            IN IF c.thrown THEN Throw(p, c.what) ELSE Return(p, FloatObject(c.value))
       [] OTHER -> Fail(p, "JSON Parser Error: unexpected token type")

\* The head of an iteration of the loop of parse_array (closing == "]") and
\* of parse_dict ("}"): the peek for the closing bracket, then from the
\* second iteration on the comma, then the call of parse().
LoopHead(p0, closing, make(_), err, pc) ==
  LET k == peek_next_token(p0)
  IN IF k.tok.kind = closing
     THEN Return(get_next_token(k.p).p, make(Top(p0).v))
     ELSE IF Top(p0).i > 0
     THEN LET g == get_next_token(k.p)
          IN IF g.tok.kind # "COMMA" THEN Fail(g.p, err) ELSE Call(g.p, pc)
     ELSE Call(k.p, pc)

\* parse_array, from where it stands to its return or to its next call
parse_array(p) ==
  CASE Top(p).pc = "peek" ->
         LoopHead(p, "RIGHT_SQUARE_BRACKET", ArrayObject,
                  "JSON Parser Error: expected , after value in array", "value")
    [] Top(p).pc = "value" ->
         \* v.push_back(value); i++
         [p EXCEPT !.stack[Len(p.stack)] =
            [@ EXCEPT !.v = Append(@, p.ret), !.i = @ + 1, !.pc = "peek"]]

\* parse_dict, likewise
parse_dict(p) ==
  CASE Top(p).pc = "peek" ->
         LoopHead(p, "RIGHT_CURLY_BRACKET", DictObject,
                  "JSON Parser Error: expected , after value in dictionary", "key")
    [] Top(p).pc = "key" ->
         \* strObj = parse() has returned
         IF p.ret.type # "STRING"
         THEN Fail(p, "JSON Parser Error: expected string as key in dictionary")
         ELSE LET g == get_next_token(p)
              IN IF g.tok.kind # "COLON"
                 THEN Fail(g.p, "JSON Parser Error: expected : after key in dictionary")
                 ELSE Call([g.p EXCEPT !.stack[Len(p.stack)].key = p.ret.value], "value")
    [] Top(p).pc = "value" ->
         \* m[key] = value; i++
         [p EXCEPT !.stack[Len(p.stack)] =
            [@ EXCEPT !.v = DictPut(@, Top(p).key, p.ret), !.i = @ + 1, !.pc = "peek"]]

\* one step of the running call
ParseStep(p) ==
  CASE p.status # "running" -> p
    [] Top(p).fn = "parse" -> parse(p)
    [] Top(p).fn = "parse_array" -> parse_array(p)
    [] Top(p).fn = "parse_dict" -> parse_dict(p)

\* JSONParser(tokens).parse() run to its return or its throw
RECURSIVE RunParse(_)
RunParse(p) == IF p.status # "running" THEN p ELSE RunParse(ParseStep(p))

(***************************************************************************)
(* The heap of shared JSONObject nodes.  An address stands for a           *)
(* std::shared_ptr<JSONObject>; heap[a] is the node, whose Array or Dict   *)
(* holds the addresses of its children.  Nodes are never moved.            *)
(***************************************************************************)

\* std::make_shared<JSONObject>(...): the heap with one node more; the new
\* node's address is Len of the result
Alloc(h, node) == Append(h, node)

\* The nodes a tree built by the parser consists of, put on the heap
\* children first; the root of the tree is the last node added.
RECURSIVE Store(_, _)
Store(h, o) ==
  LET RECURSIVE children(_, _, _)
      children(hh, k, addrs) ==
        IF k > Len(o.value) THEN [heap |-> hh, addrs |-> addrs]
        ELSE LET child == IF o.type = "DICT" THEN o.value[k].val ELSE o.value[k]
                 hc == Store(hh, child)
             IN children(hc, k + 1,
                  Append(addrs, IF o.type = "DICT"
                                THEN [key |-> o.value[k].key, val |-> Len(hc)]
                                ELSE Len(hc)))
  IN IF o.type \in {"ARRAY", "DICT"}
     THEN LET c == children(h, 1, <<>>) IN Alloc(c.heap, Node(o.type, c.addrs))
     ELSE Alloc(h, o)

\* the tree below address a, as to_string walks it
RECURSIVE TreeOf(_, _)
TreeOf(h, a) ==
  CASE h[a].type = "ARRAY" ->
         ArrayObject([k \in 1..Len(h[a].value) |-> TreeOf(h, h[a].value[k])])
    [] h[a].type = "DICT" ->
         DictObject([k \in 1..Len(h[a].value) |->
                       [key |-> h[a].value[k].key, val |-> TreeOf(h, h[a].value[k].val)]])
    [] OTHER -> h[a]

\* the addresses a node holds
ChildrenOf(node) ==
  CASE node.type = "ARRAY" -> {node.value[k] : k \in 1..Len(node.value)}
    [] node.type = "DICT" -> {node.value[k].val : k \in 1..Len(node.value)}
    [] OTHER -> {}

\* the nodes of the tree below address a, a included
RECURSIVE Reach(_, _)
Reach(h, a) == {a} \cup UNION {Reach(h, c) : c \in ChildrenOf(h[a])}

(***************************************************************************)
(* JSON: a handle is the address in its member root.  Each operation       *)
(* gives the heap after it and the root of the handle it returns.          *)
(***************************************************************************)

Result(h, root) == [heap |-> h, root |-> root]

\* JSON(): root = std::make_shared<JSONObject>(Dict())
JSONDefault(h) == Result(Alloc(h, DictObject(<<>>)), Len(h) + 1)

\* operator[](key) that makes the Null node for an absent key and forgets
\* to insert it
KeyLookupNoInsert(h, root, key) ==
  IF h[root].type = "DICT"
  THEN LET dict == h[root].value
       IN IF DictFind(dict, key) = 0
          THEN Result(Alloc(h, NullObject), Len(h) + 1)
          ELSE Result(h, dict[DictFind(dict, key)].val)
  ELSE JSONDefault(h)

\* operator[](key) that returns *this where it should fail
KeyLookupSelf(h, root, key) ==
  IF h[root].type = "DICT"
  THEN LET dict == h[root].value
       IN IF DictFind(dict, key) = 0
          THEN LET h1 == Alloc(h, NullObject)
                   h2 == [h1 EXCEPT ![root].value = DictPut(dict, key, Len(h1))]
               IN Result(h2, Len(h1))
          ELSE Result(h, dict[DictFind(dict, key)].val)
  ELSE Result(h, root)

\* JSON::operator[](std::string_view key)
KeyLookup(h, root, key) ==
  IF h[root].type = "DICT"
  THEN LET dict == h[root].value
       IN IF DictFind(dict, key) = 0
          THEN LET h1 == Alloc(h, NullObject)
                   h2 == [h1 EXCEPT ![root].value = DictPut(dict, key, Len(h1))]
               IN Result(h2, Len(h1))
          ELSE Result(h, dict[DictFind(dict, key)].val)
  ELSE JSONDefault(h)

\* the while loop of operator[](size_t): push_back until index < size
RECURSIVE Grow(_, _, _)
Grow(h, root, index) ==
  IF index >= Len(h[root].value)
  THEN LET h1 == Alloc(h, NullObject)
       IN Grow([h1 EXCEPT ![root].value = Append(@, Len(h1))], root, index)
  ELSE h

\* operator[](index) with an if for the while: one push_back, then back()
IndexLookupGrowOnce(h, root, index) ==
  IF h[root].type = "ARRAY"
  THEN IF index >= Len(h[root].value)
       THEN LET h1 == Alloc(h, NullObject)
            IN Result([h1 EXCEPT ![root].value = Append(@, Len(h1))], Len(h1))
       ELSE Result(h, h[root].value[index + 1])
  ELSE JSONDefault(h)

\* JSON::operator[](size_t index); array->at(index) is value[index + 1]
IndexLookup(h, root, index) ==
  IF h[root].type = "ARRAY"
  THEN LET h1 == Grow(h, root, index) IN Result(h1, h1[root].value[index + 1])
  ELSE JSONDefault(h)

\* operator= that points the handle at a new node (copy on write)
AssignCopyOnWrite(h, root, v) == Result(Alloc(h, v), Len(h) + 1)

\* JSON::operator=(T v): root->set<T>(v); the handle returned is *this
Assign(h, root, v) == Result([h EXCEPT ![root] = v], root)

\* JSON::to_string
JSONToString(h, root) == to_string(TreeOf(h, root), 0)

\* what write_to_file writes
JSONWritten(h, root) == to_string(TreeOf(h, root), 2)

\* JSON::read_from_file once the scanner and the parser are done: root =
\* parser.parse().  A parse that threw leaves the handle as it was.
ReadResult(h, root, p) ==
  IF p.status = "returned" THEN LET h1 == Store(h, p.ret) IN Result(h1, Len(h1))
  ELSE Result(h, root)

(***************************************************************************)
(* A client of JSON: the handle doc and two more handle variables, used    *)
(* through operator[], operator= and read_from_file.                       *)
(***************************************************************************)

MaxNodes == 9
MaxIndex == 5
MaxOps == 4

Handles == {"doc", "x", "y"}
Temps == {"x", "y"}
DocKeys == {<<"a">>, <<"b">>}
DocIndices == {1, MaxIndex}
AssignValues == {BoolObject(FALSE), IntObject(123), ArrayObject(<<>>), DictObject(<<>>)}

\* {"a": [1, 2, 3], "b": {"c": true}}
EndToEndText ==
  <<"{", "\"", "a", "\"", ":", " ", "[", "1", ",", " ", "2", ",", " ", "3", "]",
    ",", " ", "\"", "b", "\"", ":", " ", "{", "\"", "c", "\"", ":", " ",
    "t", "r", "u", "e", "}", "}">>

\* {"a":[true,null],"b":{"c":true}}
PlainText ==
  <<"{", "\"", "a", "\"", ":", "[", "t", "r", "u", "e", ",", "n", "u", "l", "l",
    "]", ",", "\"", "b", "\"", ":", "{", "\"", "c", "\"", ":", "t", "r", "u", "e",
    "}", "}">>

DocFiles == {EndToEndText, PlainText}

ScannerIdle ==
  [pc |-> "idle", opened |-> FALSE, rest |-> <<>>, line |-> <<>>, i |-> 1,
   tokens |-> <<>>, log |-> <<>>]

\* What a run is started on: a file to read ("file"), a document written
\* out and read back ("value"), or tokens handed to a JSONParser ("tokens").
Input(kind, opened, text, value, depth, tokens) ==
  [kind |-> kind, opened |-> opened, text |-> text, value |-> value,
   depth |-> depth, tokens |-> tokens]

NoInput == Input("client", TRUE, <<>>, NullObject, 0, <<>>)

\* The record of an operation: on handle h, whose root was src, with the
\* result put in handle d; root is the root of the handle returned, grew the
\* number of nodes the call made, n the number of operations so far.
Op(op, h, d, src, key, index, value, r, n) ==
  [op |-> op, h |-> h, d |-> d, src |-> src, key |-> key, index |-> index,
   value |-> value, root |-> r.root, grew |-> Len(r.heap) - Len(heap), n |-> n]

\* sjson::JSON json; the other handle variables are copies of it
InitDoc ==
  /\ input = NoInput
  /\ sc = ScannerIdle
  /\ ps = ParserIdle
  /\ heap = JSONDefault(<<>>).heap
  /\ handles = [h \in Handles |-> JSONDefault(<<>>).root]
  /\ last = [op |-> "JSON", h |-> "doc", d |-> "doc", src |-> 1, key |-> <<>>,
             index |-> 0, value |-> NullObject, root |-> JSONDefault(<<>>).root,
             grew |-> 1, n |-> 0]
  /\ detached = {}

\* whether operator[] on this node takes the failing branch
KeyFails(node) == node.type # "DICT"
IndexFails(node) == node.type # "ARRAY"

\* d = h[key]
DoKey(h, key, d) ==
  LET r == KeyLookup(heap, handles[h], key)
  IN /\ last.n < MaxOps
     /\ Len(r.heap) <= MaxNodes
     /\ heap' = r.heap
     /\ handles' = [handles EXCEPT ![d] = r.root]
     /\ last' = Op("key", h, d, handles[h], key, 0, NullObject, r, last.n + 1)
     /\ detached' = IF KeyFails(heap[handles[h]]) THEN detached \cup {r.root}
                    ELSE detached
     /\ UNCHANGED <<input, sc, ps>>

\* d = h[index]
DoIndex(h, index, d) ==
  LET r == IndexLookup(heap, handles[h], index)
  IN /\ last.n < MaxOps
     /\ Len(r.heap) <= MaxNodes
     /\ heap' = r.heap
     /\ handles' = [handles EXCEPT ![d] = r.root]
     /\ last' = Op("index", h, d, handles[h], <<>>, index, NullObject, r, last.n + 1)
     /\ detached' = IF IndexFails(heap[handles[h]]) THEN detached \cup {r.root}
                    ELSE detached
     /\ UNCHANGED <<input, sc, ps>>

\* h = v
DoAssign(h, v) ==
  LET r == Assign(heap, handles[h], v)
  IN /\ last.n < MaxOps
     /\ heap' = r.heap
     /\ handles' = [handles EXCEPT ![h] = r.root]
     /\ last' = Op("assign", h, h, handles[h], <<>>, 0, v, r, last.n + 1)
     /\ UNCHANGED <<input, sc, ps, detached>>

\* what the scanner and the parser make of each file, computed once
ParsedFile ==
  [text \in DocFiles |-> RunParse(ParserInit(RunScan(ScannerInit(TRUE, text)).tokens))]

\* doc.read_from_file(file)
DoRead(text) ==
  LET r == ReadResult(heap, handles["doc"], ParsedFile[text])
  IN /\ last.n < MaxOps
     /\ Len(r.heap) <= MaxNodes
     /\ heap' = r.heap
     /\ handles' = [handles EXCEPT !["doc"] = r.root]
     /\ last' = Op("read", "doc", "doc", handles["doc"], text, 0, NullObject, r, last.n + 1)
     /\ UNCHANGED <<input, sc, ps, detached>>

NextDoc ==
  \/ \E h \in Handles, key \in DocKeys, d \in Temps : DoKey(h, key, d)
  \/ \E h \in Handles, index \in DocIndices, d \in Temps : DoIndex(h, index, d)
  \/ \E h \in Handles, v \in AssignValues : DoAssign(h, v)
  \/ \E text \in DocFiles : DoRead(text)

SpecDoc == InitDoc /\ [][NextDoc]_vars

\* the step is an operation of the client
Stepped == last'.n = last.n + 1

(***************************************************************************)
(* C3: assignment through a handle overwrites the tag and payload of the   *)
(* node the handle aliases, in place: every handle aliasing that node and  *)
(* the parent container holding it read the assigned value right after     *)
(* the call, and no other node changes.                                    *)
(***************************************************************************)
C3_AssignInPlace ==
  [][(Stepped /\ last'.op = "assign") =>
       LET a == handles[last'.h]
       IN /\ heap'[a] = last'.value
          /\ handles' = handles
          /\ \A h \in Handles : handles[h] = a => heap'[handles'[h]] = last'.value
          /\ \A p \in DOMAIN heap :
               (p # a /\ a \in ChildrenOf(heap[p])) =>
                 /\ heap'[p] = heap[p]
                 /\ \E k \in 1..Len(heap'[p].value) :
                      LET e == heap'[p].value[k]
                      IN heap'[IF heap'[p].type = "DICT" THEN e.val ELSE e] = last'.value
          /\ DOMAIN heap' = DOMAIN heap
          /\ \A b \in DOMAIN heap \ {a} : heap'[b] = heap[b]]_vars

\* an assignment of false to a node that two handles alias and a container
\* of the document holds
C3_Witness ==
  /\ last.op = "assign"
  /\ last.value = BoolObject(FALSE)
  /\ handles["x"] = last.root /\ handles["y"] = last.root
  /\ \E p \in Reach(heap, handles["doc"]) : last.root \in ChildrenOf(heap[p])

(***************************************************************************)
(* C4: operator[](key) on an Object inserts a Null node under an absent    *)
(* key and leaves the Object alone when the key is present; every other    *)
(* entry keeps its key and node, and the handle returned aliases the node  *)
(* stored under the key, which a later doc[key] returns again.             *)
(***************************************************************************)
C4_KeyLookupOnObject ==
  [][(Stepped /\ last'.op = "key" /\ ~KeyFails(heap[handles[last'.h]])) =>
       LET root == handles[last'.h]
           old == heap[root].value
           new == heap'[root].value
           at == DictFind(new, last'.key)
       IN /\ heap'[root].type = "DICT"
          /\ at # 0 /\ new[at].val = last'.root
          /\ handles'[last'.d] = last'.root
          /\ IF DictFind(old, last'.key) = 0
             THEN /\ last'.root \notin DOMAIN heap
                  /\ heap'[last'.root] = NullObject
                  /\ Len(new) = Len(old) + 1
                  /\ DOMAIN heap' = DOMAIN heap \cup {last'.root}
             ELSE heap' = heap
          /\ \A k \in 1..Len(old) :
               \E j \in 1..Len(new) : new[j] = old[k]
          /\ \A j \in 1..Len(new) :
               new[j].key = last'.key \/ \E k \in 1..Len(old) : old[k] = new[j]
          /\ \A b \in DOMAIN heap \ {root} : heap'[b] = heap[b]
          /\ KeyLookup(heap', root, last'.key) = Result(heap', last'.root)]_vars

\* a lookup of an absent key on an Object that had another entry
C4_Witness ==
  /\ last.op = "key" /\ last.grew = 1
  /\ heap[last.src].type = "DICT" /\ Len(heap[last.src].value) >= 2
  /\ heap[last.root] = NullObject

(***************************************************************************)
(* C5: operator[](i) on an Array of n elements appends Null nodes until    *)
(* the Array has exactly i + 1 elements when i >= n and leaves it alone    *)
(* when i < n; the first n elements stay the same nodes in order, and the  *)
(* handle returned aliases the node in slot i.                             *)
(***************************************************************************)
C5_IndexLookupOnArray ==
  [][(Stepped /\ last'.op = "index" /\ ~IndexFails(heap[handles[last'.h]])) =>
       LET root == handles[last'.h]
           old == heap[root].value
           new == heap'[root].value
           i == last'.index
       IN /\ heap'[root].type = "ARRAY"
          /\ Len(new) = IF i >= Len(old) THEN i + 1 ELSE Len(old)
          /\ SubSeq(new, 1, Len(old)) = old
          /\ \A k \in Len(old) + 1..Len(new) :
               /\ new[k] \notin DOMAIN heap
               /\ heap'[new[k]] = NullObject
               /\ \A j \in Len(old) + 1..Len(new) : new[j] = new[k] => j = k
          /\ i < Len(old) => heap' = heap
          /\ last'.root = new[i + 1]
          /\ handles'[last'.d] = last'.root
          /\ \A b \in DOMAIN heap \ {root} : heap'[b] = heap[b]]_vars

\* doc[5] on a two-element array: six elements, the four new ones Null
C5_Witness ==
  /\ last.op = "index" /\ last.index = 5 /\ last.grew = 4
  /\ heap[last.src].type = "ARRAY" /\ Len(heap[last.src].value) = 6
  /\ \A k \in 3..6 : heap[heap[last.src].value[k]] = NullObject
  /\ last.root = heap[last.src].value[6]

(***************************************************************************)
(* C6: operator[](key) on a node that is not an Object and operator[](i)   *)
(* on a node that is not an Array change no node that exists, and return   *)
(* a handle on a fresh default root that no node refers to; nothing done   *)
(* through such a handle reaches a node of the document.                   *)
(***************************************************************************)
C6_FailedLookup ==
  /\ [][(/\ Stepped
         /\ \/ last'.op = "key" /\ KeyFails(heap[handles[last'.h]])
            \/ last'.op = "index" /\ IndexFails(heap[handles[last'.h]])) =>
          /\ SubSeq(heap', 1, Len(heap)) = heap
          /\ Len(heap') = Len(heap) + 1
          /\ last'.root = Len(heap')
          /\ heap'[last'.root] = DictObject(<<>>)
          /\ handles'[last'.d] = last'.root
          /\ \A p \in DOMAIN heap' : last'.root \notin ChildrenOf(heap'[p])]_vars
  /\ [](\A a \in detached :
          Reach(heap, a) \cap Reach(heap, handles["doc"]) = {})

\* a failed lookup on a node of the document, and then an assignment
\* through the handle it returned
C6_Witness ==
  /\ last.op = "assign"
  /\ last.root \in detached
  /\ heap[last.root] = IntObject(123)
  /\ Reach(heap, handles["doc"]) # {handles["doc"]}

(***************************************************************************)
(* C1: reading {"a": [1, 2, 3], "b": {"c": true}} leaves in doc an Object  *)
(* with the Array [1, 2, 3] under "a" and the Object {"c": true} under     *)
(* "b", and doc["a"][1] is then the Integer 2.                             *)
(***************************************************************************)
EndToEndTree ==
  DictObject(<<[key |-> <<"a">>,
                val |-> ArrayObject(<<IntObject(1), IntObject(2), IntObject(3)>>)],
               [key |-> <<"b">>,
                val |-> DictObject(<<[key |-> <<"c">>, val |-> BoolObject(TRUE)]>>)]>>)

C1_EndToEnd ==
  (last.op = "read" /\ last.key = EndToEndText) =>
    /\ TreeOf(heap, handles["doc"]) = EndToEndTree
    /\ LET a == KeyLookup(heap, handles["doc"], <<"a">>)
           e == IndexLookup(a.heap, a.root, 1)
       IN e.heap[e.root] = IntObject(2)

(***************************************************************************)
(* JSON::read_from_file step by step: the scanner reads the file, the      *)
(* parser is constructed on its tokens and runs, and the value it returns  *)
(* becomes the root of doc.  A run starts on a file, on the text a         *)
(* document was written as, or with a JSONParser on a token sequence.      *)
(***************************************************************************)

MaxTextLen == 3
MaxTokens == 3

\* all sequences over S of length at most n
RECURSIVE SeqsUpTo(_, _)
SeqsUpTo(S, n) ==
  IF n = 0 THEN {<<>>}
  ELSE LET shorter == SeqsUpTo(S, n - 1)
       IN shorter \cup {Append(q, c) : q \in shorter, c \in S}

TextChars == {"[", "1", "-", "e", ".", "\"", "/", "n", " ", "\n"}

Text12 == <<"1", "2">>
Text12p0 == <<"1", "2", ".", "0">>
Text1e5 == <<"1", "e", "5">>
Text1p2em3 == <<"1", ".", "2", "e", "-", "3">>
Text1p2p3 == <<"1", ".", "2", ".", "3">>
Text1e == <<"1", "e">>
TextNull == <<"n", "u", "l", "l">>

\* [true] // c
TextTrailingComment == <<"[", "t", "r", "u", "e", "]", " ", "/", "/", " ", "c">>
\* ["a//b",true]
TextSlashesInString ==
  <<"[", "\"", "a", "/", "/", "b", "\"", ",", "t", "r", "u", "e", "]">>

SampleTexts ==
  {EndToEndText, PlainText, Text12, Text12p0, Text1e5, Text1p2em3, Text1p2p3,
   Text1e, TextNull, TextTrailingComment, TextSlashesInString,
   <<"t", "r", "u", "e">>, <<"n", "u", "l">>, <<"f", "a", "l", "s">>,
   <<"[", "t", "r", "u", "e">>, <<"[", "t", "r", "u", "e", " ", "n", "u", "l", "l", "]">>,
   <<"{", "\"", "a", "\"", " ", "t", "r", "u", "e", "}">>,
   <<"{", "1", " ", ":", "t", "r", "u", "e", "}">>,
   <<"a", ":", " ", "1", " ", "/", "/", " ", "n", "o", "t", "e">>}

Leaves ==
  {NullObject, BoolObject(TRUE), BoolObject(FALSE), IntObject(1), IntObject(-5),
   StringObject(<<>>), StringObject(<<"a">>)}

ArraysOf(S) ==
  {ArrayObject(<<>>)} \cup {ArrayObject(<<a>>) : a \in S}
  \cup {ArrayObject(<<a, b>>) : a \in S, b \in S}

DictsOf(S) ==
  {DictObject(<<>>)} \cup {DictObject(<<[key |-> <<"a">>, val |-> a]>>) : a \in S}
  \cup {DictObject(<<[key |-> <<"a">>, val |-> a], [key |-> <<"b">>, val |-> b]>>) :
          a \in S, b \in S}

Flat == Leaves \cup ArraysOf(Leaves) \cup DictsOf(Leaves)

\* the documents written out and read back
Values ==
  Flat \cup {ArrayObject(<<a>>) : a \in Flat}
       \cup {DictObject(<<[key |-> <<"b">>, val |-> a]>>) : a \in Flat}

TokenAlphabet ==
  {Tok("LEFT_SQUARE_BRACKET", <<"[">>), Tok("RIGHT_SQUARE_BRACKET", <<"]">>),
   Tok("LEFT_CURLY_BRACKET", <<"{">>), Tok("RIGHT_CURLY_BRACKET", <<"}">>),
   Tok("COMMA", <<",">>), Tok("COLON", <<":">>),
   Tok("STRING", <<"\"", "a", "\"">>), Tok("INTEGER", <<"1">>),
   Tok("BOOL", <<"t", "r", "u", "e">>)}

Inputs ==
  {Input("file", TRUE, t, NullObject, 0, <<>>) :
     t \in SampleTexts \cup SeqsUpTo(TextChars, MaxTextLen)}
  \cup {Input("file", FALSE, <<>>, NullObject, 0, <<>>)}
  \cup {Input("value", TRUE, to_string(v, d), v, d, <<>>) : v \in Values, d \in {0, 2}}
  \cup {Input("tokens", TRUE, <<>>, NullObject, 0, q) :
          q \in SeqsUpTo(TokenAlphabet, MaxTokens)}

Init ==
  /\ input \in Inputs
  /\ sc = IF input.kind = "tokens" THEN ScannerIdle
          ELSE ScannerInit(input.opened, input.text)
  /\ ps = IF input.kind = "tokens" THEN ParserInit(input.tokens) ELSE ParserIdle
  /\ heap = JSONDefault(<<>>).heap
  /\ handles = [h \in Handles |-> JSONDefault(<<>>).root]
  /\ last = [op |-> "JSON", h |-> "doc", d |-> "doc", src |-> 1, key |-> <<>>,
             index |-> 0, value |-> NullObject, root |-> JSONDefault(<<>>).root,
             grew |-> 1, n |-> 0]
  /\ detached = {}

\* scanner.read(filename), one step of it
ScannerStep ==
  /\ sc.pc \in {"read", "getline", "loop"}
  /\ sc' = ScanStep(sc)
  /\ UNCHANGED <<input, ps, heap, handles, last, detached>>

\* auto tokens = scanner.get_tokens(); JSONParser parser(tokens);
ParserStart ==
  /\ sc.pc = "done"
  /\ ps.status = "idle"
  /\ ps' = ParserInit(sc.tokens)
  /\ UNCHANGED <<input, sc, heap, handles, last, detached>>

\* parser.parse(), one step of it
ParserStep ==
  /\ ps.status = "running"
  /\ ps' = ParseStep(ps)
  /\ UNCHANGED <<input, sc, heap, handles, last, detached>>

\* root = parser.parse(), once parse has returned
RootAssign ==
  LET r == ReadResult(heap, handles["doc"], ps)
  IN /\ ps.status = "returned"
     /\ last.op # "read"
     /\ heap' = r.heap
     /\ handles' = [handles EXCEPT !["doc"] = r.root]
     /\ last' = Op("read", "doc", "doc", handles["doc"], input.text, 0, NullObject, r,
                   last.n + 1)
     /\ UNCHANGED <<input, sc, ps, detached>>

Next == ScannerStep \/ ParserStart \/ ParserStep \/ RootAssign

\* the code is sequential and synchronous: a call that can take a step does
Spec == Init /\ [][Next]_vars /\ WF_vars(Next)

\* parse() has returned or thrown
Terminated == ps.status \in {"returned", "thrown"}

(***************************************************************************)
(* C2: a document written out and read back prints as it did before:       *)
(* serialize(parse(serialize(v))) = serialize(v) for every tree v of       *)
(* Null, Bool, Integer, String, Array and Object nodes.                    *)
(***************************************************************************)
C2_RoundTrip ==
  (input.kind = "value" /\ (last.op = "read" \/ ps.status = "thrown")) =>
    /\ ps.status = "returned"
    /\ to_string(TreeOf(heap, handles["doc"]), input.depth)
         = to_string(input.value, input.depth)

(***************************************************************************)
(* C7: a failed scan or parse is told apart from every success: the        *)
(* scanner puts no Null placeholder token where a literal was malformed,   *)
(* and a read that printed a diagnostic does not leave in doc a tree that  *)
(* a well-formed text also gives (the empty file is not read as `null`).   *)
(***************************************************************************)
ParsedSample ==
  [t \in SampleTexts |->
     LET s == RunScan(ScannerInit(TRUE, t))
     IN [scan |-> s, parse |-> RunParse(ParserInit(s.tokens))]]

\* what the texts read without any diagnostic are read as
CleanResults ==
  {ParsedSample[t].parse.ret :
     t \in {u \in SampleTexts : /\ ParsedSample[u].scan.log = <<>>
                                /\ ParsedSample[u].parse.log = <<>>
                                /\ ParsedSample[u].parse.status = "returned"}}

C7_ErrorsDistinguishable ==
  /\ \A k \in 1..Len(sc.tokens) : sc.tokens[k] # NullPlaceholder
  /\ (last.op = "read" /\ sc.log \o ps.log # <<>>) =>
       TreeOf(heap, handles["doc"]) \notin CleanResults

(***************************************************************************)
(* C8: 12 is scanned as one Integer token; 12.0, 1e5 and 1.2e-3 as one     *)
(* Number token each; 1.2.3 and 1e are rejected: reading them gives no     *)
(* numeric value.                                                          *)
(***************************************************************************)
C8_NumberClassification ==
  /\ (input.kind = "file" /\ sc.pc = "done") =>
       /\ input.text = Text12 => sc.tokens = <<Tok("INTEGER", Text12)>>
       /\ input.text \in {Text12p0, Text1e5, Text1p2em3} =>
            sc.tokens = <<Tok("NUMBER", input.text)>>
  /\ (input.kind = "file" /\ input.text \in {Text1p2p3, Text1e} /\ Terminated) =>
       ~(ps.status = "returned" /\ ps.ret.type \in {"INTEGER", "NUMBER"})

(***************************************************************************)
(* C9: a trailing // comment outside string literals is dropped, and a //  *)
(* inside a quoted string does not cut the line: the string is one String  *)
(* token and the tokens after it on the line are produced.                 *)
(***************************************************************************)
C9_CommentStripping ==
  (input.kind = "file" /\ sc.pc = "done") =>
    /\ input.text = TextTrailingComment =>
         sc.tokens = <<Tok("LEFT_SQUARE_BRACKET", <<"[">>),
                       Tok("BOOL", <<"t", "r", "u", "e">>),
                       Tok("RIGHT_SQUARE_BRACKET", <<"]">>)>>
    /\ input.text = TextSlashesInString =>
         sc.tokens = <<Tok("LEFT_SQUARE_BRACKET", <<"[">>),
                       Tok("STRING", <<"\"", "a", "/", "/", "b", "\"">>),
                       Tok("COMMA", <<",">>),
                       Tok("BOOL", <<"t", "r", "u", "e">>),
                       Tok("RIGHT_SQUARE_BRACKET", <<"]">>)>>

(***************************************************************************)
(* C10 as claimed: every run of JSONParser::parse ends by returning.       *)
(***************************************************************************)
C10_ParseReturns == Terminated => ps.status = "returned"

(***************************************************************************)
(* C10, amended: on every text and every token sequence the scan and the   *)
(* parse end after finitely many steps, the parse by returning or by the   *)
(* exception std::stoi, std::stof or substr throws out of it; the parser's *)
(* index never exceeds the number of tokens; and every iteration of the    *)
(* scanner's loop over a line moves i forward, also after a malformed      *)
(* literal.                                                                *)
(***************************************************************************)
C10_Termination ==
  /\ <>Terminated
  /\ [](ps.index <= Len(ps.tokens))
  /\ [][(sc.pc = "loop" /\ sc'.pc = "loop" /\ sc' # sc) => sc'.i > sc.i]_vars

\* parse returned from an array loop that ran out of tokens after a comma
C10_Witness ==
  /\ ps.status = "returned"
  /\ Len(ps.tokens) = 3
  /\ ps.tokens[1].kind = "LEFT_SQUARE_BRACKET"
  /\ ps.tokens[3].kind = "COMMA"
  /\ ps.index = Len(ps.tokens)
  /\ \E k \in 1..Len(ps.log) : ps.log[k] = EndOfTokens

====
